---- MODULE Spec2Model ----
(***************************************************************************)
(* Model of the recording / transcription controller of                    *)
(* src/app/page.tsx (component Home).                                      *)
(*                                                                         *)
(* Every invocation of startRecording is a "session" s: it owns the        *)
(* closure variables of that invocation (stream, mediaRecorder and the     *)
(* targetLanguage captured by the useCallback closure) and walks through   *)
(* the phases of pc[s].  The React state and the three refs are shared by  *)
(* all sessions.  Each action is one task of the browser's event loop (an  *)
(* event handler or the continuation of an await together with the         *)
(* microtasks it triggers); React re-renders between tasks, so a handler   *)
(* reads the state left by the previous task.                              *)
(***************************************************************************)
EXTENDS Naturals, Sequences, FiniteSets

\* ---------------------------------------------------------------- bounds
MaxSessions == 2    \* invocations of startRecording in one run
MaxChunks == 1      \* dataavailable events per recorder
MaxTime == 1        \* ticks of the elapsed-time counter that are followed
MaxClock == 1       \* advances of Date.now() between two reads of it
MaxTextLen == 2     \* length of response.text
MaxTimeouts == 2    \* pending setTimeout(() => setCopiedId(null)) callbacks
MaxCopies == 1      \* copies of history entries awaiting writeText

Sessions == 1..MaxSessions

\* ------------------------------------------------------------- constants
Null == "null"
\* response.text undefined: a value that is no string of Chars
Absent == <<"undefined">>
\* copiedId null; Date.now() is positive, so no id equals it
NullId == 0
MicError == "Nao foi possivel acessar o microfone. Verifique as permissoes do navegador."
EmptyError == "Nao foi possivel transcrever o audio."
AIError == "Ocorreu um erro ao processar o audio com a IA."
Languages == {"Portugues", "Ingles", "Espanhol"}
DefaultLanguage == "Portugues"

\* Characters of a response: one whitespace and one non-whitespace character.
Chars == {" ", "a"}
Texts == UNION {[1..n -> Chars] : n \in 0..MaxTextLen}
\* response.text: a string, or undefined
Responses == Texts \cup {Absent}

VARIABLES
  isRecording, isProcessing, error, transcriptions, copiedId, recordingTime,
  targetLanguage,
  mediaRecorderRef, audioChunksRef, timerRef,
  nSessions, pc, lang, tracks, intervals, delivered, blob,
  response, correctedText, newId,
  clock, copyTimeouts, textAreas, copying,
  consoleErrors    \* the messages given to console.error so far

reactState == <<isRecording, isProcessing, error, transcriptions, copiedId,
                recordingTime, targetLanguage>>
refs == <<mediaRecorderRef, audioChunksRef, timerRef>>
sessionState == <<nSessions, pc, lang, tracks, intervals, delivered, blob,
                  response, correctedText, newId>>
platform == <<clock, copyTimeouts, textAreas, copying, consoleErrors>>
vars == <<reactState, refs, sessionState, platform>>

\* ------------------------------------------------------- pure functions
\* String.prototype.trim
RECURSIVE TrimStart(_)
TrimStart(t) ==
  IF t # <<>> /\ Head(t) = " " THEN TrimStart(Tail(t)) ELSE t

RECURSIVE TrimEnd(_)
TrimEnd(t) ==
  IF t # <<>> /\ t[Len(t)] = " " THEN TrimEnd(SubSeq(t, 1, Len(t) - 1)) ELSE t

Trim(t) == TrimEnd(TrimStart(t))

\* CorrectedText with the call of trim() left out
CorrectedTextNoTrim(resp) == IF resp = Absent THEN <<>> ELSE resp

\* response.text?.trim() || ''
CorrectedText(resp) == IF resp = Absent THEN <<>> ELSE Trim(resp)

\* IsUsable with the test left out: every result is taken as a transcription
IsUsableAlways(text) == TRUE

\* if (correctedText): the empty string is falsy
IsUsable(text) == text # <<>>

\* ------------------------------------------------------------------ Init
Init ==
  /\ isRecording = FALSE
  /\ isProcessing = FALSE
  /\ error = Null
  /\ transcriptions = <<>>
  /\ copiedId = NullId
  /\ recordingTime = 0
  /\ targetLanguage = DefaultLanguage
  /\ mediaRecorderRef = 0
  /\ audioChunksRef = <<>>
  /\ timerRef = 0
  /\ nSessions = 0
  /\ pc = [s \in Sessions |-> "idle"]
  /\ lang = [s \in Sessions |-> Null]
  /\ tracks = {}
  /\ intervals = {}
  /\ delivered = [s \in Sessions |-> 0]
  /\ blob = [s \in Sessions |-> <<>>]
  /\ response = [s \in Sessions |-> <<>>]
  /\ correctedText = [s \in Sessions |-> <<>>]
  /\ newId = [s \in Sessions |-> NullId]
  /\ clock = 1
  /\ copyTimeouts = 0
  /\ textAreas = 0
  /\ copying = {}
  /\ consoleErrors = {}

\* ------------------------------------------------------------ operations
\* startRecording, up to its await of getUserMedia: the error is cleared and
\* the permission request is issued; the closure keeps the targetLanguage of
\* the render that created it.
startRecording ==
  /\ nSessions < MaxSessions
  /\ LET s == nSessions + 1 IN
       /\ error' = Null
       /\ nSessions' = s
       /\ pc' = [pc EXCEPT ![s] = "getUserMedia"]
       /\ lang' = [lang EXCEPT ![s] = targetLanguage]
  /\ UNCHANGED <<isRecording, isProcessing, transcriptions, copiedId,
                 recordingTime, targetLanguage, refs, tracks, intervals,
                 delivered, blob, response, correctedText, newId, platform>>

\* clearInterval(timerRef.current), when timerRef.current is set
ClearTimer == intervals \ {timerRef}

\* stopRecording.  MediaRecorder.stop() on a recorder that is already
\* inactive either throws InvalidStateError (the handler ends before
\* setIsRecording) or does nothing, depending on the browser.
stopRecording ==
  IF mediaRecorderRef # 0 /\ isRecording
  THEN \/ /\ pc[mediaRecorderRef] = "recording"
          /\ pc' = [pc EXCEPT ![mediaRecorderRef] = "stopped"]
          /\ isRecording' = FALSE
          /\ intervals' = ClearTimer
          /\ UNCHANGED <<isProcessing, error, transcriptions, copiedId,
                         recordingTime, targetLanguage, refs, nSessions, lang,
                         tracks, delivered, blob, response, correctedText, newId,
                         platform>>
       \/ /\ pc[mediaRecorderRef] # "recording"
          /\ isRecording' = FALSE
          /\ intervals' = ClearTimer
          /\ UNCHANGED <<isProcessing, error, transcriptions, copiedId,
                         recordingTime, targetLanguage, refs, nSessions, pc,
                         lang, tracks, delivered, blob, response, correctedText, newId,
                         platform>>
       \/ /\ pc[mediaRecorderRef] # "recording"
          /\ UNCHANGED vars
  ELSE UNCHANGED vars

\* handleKeyDown with the test of isProcessing left out
handleKeyDownWhileProcessing ==
  IF ~isRecording THEN startRecording ELSE stopRecording

\* handleKeyDown for the Space key (the page has no input element)
handleKeyDown ==
  IF ~isRecording /\ ~isProcessing
  THEN startRecording
  ELSE IF isRecording THEN stopRecording ELSE UNCHANGED vars

\* onClick of the main button: disabled while isProcessing, otherwise
\* isRecording ? stopRecording : startRecording
ButtonClick ==
  /\ ~isProcessing
  /\ IF isRecording THEN stopRecording ELSE startRecording

\* getUserMedia resolved: the rest of startRecording's try block
getUserMediaResolved(s) ==
  /\ pc[s] = "getUserMedia"
  /\ tracks' = tracks \cup {s}
  /\ mediaRecorderRef' = s
  /\ audioChunksRef' = <<>>
  /\ pc' = [pc EXCEPT ![s] = "recording"]
  /\ isRecording' = TRUE
  /\ recordingTime' = 0
  /\ timerRef' = s
  /\ intervals' = intervals \cup {s}
  /\ UNCHANGED <<isProcessing, error, transcriptions, copiedId,
                 targetLanguage, nSessions, lang, delivered, blob,
                 response, correctedText, newId, platform>>

\* getUserMediaRejected as if setIsRecording(true) preceded the await
getUserMediaRejectedRecording(s) ==
  /\ pc[s] = "getUserMedia"
  /\ consoleErrors' = consoleErrors \cup {"Error accessing microphone:"}
  /\ error' = MicError
  /\ isRecording' = TRUE
  /\ pc' = [pc EXCEPT ![s] = "denied"]
  /\ lang' = [lang EXCEPT ![s] = Null]
  /\ UNCHANGED <<isProcessing, transcriptions, copiedId, recordingTime,
                 targetLanguage, refs, nSessions, tracks, intervals,
                 delivered, blob, response, correctedText, newId, clock,
                 copyTimeouts, textAreas, copying>>

\* getUserMedia rejected: startRecording's catch block
getUserMediaRejected(s) ==
  /\ pc[s] = "getUserMedia"
  /\ consoleErrors' = consoleErrors \cup {"Error accessing microphone:"}
  /\ error' = MicError
  /\ pc' = [pc EXCEPT ![s] = "denied"]
  /\ lang' = [lang EXCEPT ![s] = Null]
  /\ UNCHANGED <<isRecording, isProcessing, transcriptions, copiedId,
                 recordingTime, targetLanguage, refs, nSessions, tracks,
                 intervals, delivered, blob, response, correctedText, newId,
                 clock, copyTimeouts, textAreas, copying>>

\* mediaRecorder.ondataavailable of session s; a chunk is <<s, k>>, the k-th
\* blob of recorder s, and size = 0 is an empty blob.  The recorder is started
\* without a timeslice and requestData is never called, so it delivers its
\* data once it has stopped, before its stop event.
ondataavailable(s, size) ==
  /\ pc[s] \in {"stopped", "ended"}
  /\ delivered[s] < MaxChunks
  /\ delivered' = [delivered EXCEPT ![s] = @ + 1]
  /\ audioChunksRef' = IF size > 0
                       THEN Append(audioChunksRef, <<s, delivered[s] + 1>>)
                       ELSE audioChunksRef
  /\ UNCHANGED <<reactState, mediaRecorderRef, timerRef, nSessions, pc, lang,
                 tracks, intervals, blob, response, correctedText, newId, platform>>

\* The recorder of session s stops on its own (its tracks ended or it
\* failed): the stop event is queued without a call of stopRecording.
RecorderEnds(s) ==
  /\ pc[s] = "recording"
  /\ pc' = [pc EXCEPT ![s] = "ended"]
  /\ UNCHANGED <<reactState, refs, nSessions, lang, tracks, intervals,
                 delivered, blob, response, correctedText, newId, platform>>

\* ReleaseTracks with the tracks left running
ReleaseTracksNever(s) == tracks

\* stream.getTracks().forEach(track => track.stop())
ReleaseTracks(s) == tracks \ {s}

\* mediaRecorder.onstop of session s: the blob is assembled, processAudio runs
\* up to the registration of reader.onloadend and returns, and the tracks are
\* stopped in the microtask that follows.
onstop(s) ==
  /\ pc[s] \in {"stopped", "ended"}
  /\ blob' = [blob EXCEPT ![s] = audioChunksRef]
  /\ isProcessing' = TRUE
  /\ pc' = [pc EXCEPT ![s] = "reading"]
  /\ tracks' = ReleaseTracks(s)
  /\ delivered' = [delivered EXCEPT ![s] = 0]
  /\ UNCHANGED <<isRecording, error, transcriptions, copiedId, recordingTime,
                 targetLanguage, refs, nSessions, lang, intervals,
                 response, correctedText, newId, platform>>

\* reader.onloadend up to its await: generateContent is called with blob[s]
\* and lang[s]
onloadend(s) ==
  /\ pc[s] = "reading"
  /\ pc' = [pc EXCEPT ![s] = "generateContent"]
  /\ UNCHANGED <<reactState, refs, nSessions, lang, tracks, intervals,
                 delivered, blob, response, correctedText, newId, platform>>

\* Prepend with the new entry put last
PrependLast(entry, prev) == prev \o <<entry>>

\* [newTranscription, ...prev]
Prepend(entry, prev) == <<entry>> \o prev

\* The locals of a finished callback are dropped: lang, blob, response,
\* correctedText and newId of session s are read by no later step.
Released(f, s, none) == [f EXCEPT ![s] = none]

\* generateContent resolved with response.text = resp; now is Date.now(),
\* which never runs backwards
generateContentResolved(s, resp, now) ==
  /\ pc[s] = "generateContent"
  /\ now >= clock
  /\ LET text == CorrectedText(resp) IN
       IF IsUsable(text)
       THEN /\ response' = [response EXCEPT ![s] = resp]
            /\ correctedText' = [correctedText EXCEPT ![s] = text]
            /\ newId' = [newId EXCEPT ![s] = now]
            /\ clock' = now
            /\ transcriptions' =
                 Prepend([id |-> now, text |-> text], transcriptions)
            /\ pc' = [pc EXCEPT ![s] = "writeText"]
            /\ lang' = Released(lang, s, Null)
            /\ blob' = Released(blob, s, <<>>)
            /\ UNCHANGED <<isRecording, isProcessing, error, copiedId,
                           recordingTime, targetLanguage, refs, nSessions,
                           tracks, intervals, delivered, copyTimeouts,
                           textAreas, copying, consoleErrors>>
       ELSE /\ error' = EmptyError
            /\ isProcessing' = FALSE
            /\ pc' = [pc EXCEPT ![s] = "done"]
            /\ lang' = Released(lang, s, Null)
            /\ blob' = Released(blob, s, <<>>)
            /\ UNCHANGED <<isRecording, transcriptions, copiedId,
                           recordingTime, targetLanguage, refs, nSessions,
                           tracks, intervals, delivered, response, correctedText, newId,
                           platform>>

\* generateContentRejected as if the callback ran again after a rejection
generateContentRejectedRetry(s) ==
  /\ pc[s] = "generateContent"
  /\ pc' = [pc EXCEPT ![s] = "reading"]
  /\ UNCHANGED <<reactState, refs, nSessions, lang, tracks, intervals,
                 delivered, blob, response, correctedText, newId, platform>>

\* generateContent rejected: the rejection is raised inside the async
\* reader.onloadend callback, outside processAudio's try block, so no handler
\* runs and nothing but the callback's own position changes.
generateContentRejected(s) ==
  /\ pc[s] = "generateContent"
  /\ pc' = [pc EXCEPT ![s] = "rejected"]
  /\ lang' = Released(lang, s, Null)
  /\ blob' = Released(blob, s, <<>>)
  /\ UNCHANGED <<reactState, refs, nSessions, tracks, intervals, delivered,
                 response, correctedText, newId, platform>>

\* navigator.clipboard.writeText resolved
writeTextResolved(s) ==
  /\ pc[s] = "writeText"
  /\ copyTimeouts < MaxTimeouts
  /\ copiedId' = newId[s]
  /\ copyTimeouts' = copyTimeouts + 1
  /\ isProcessing' = FALSE
  /\ pc' = [pc EXCEPT ![s] = "done"]
  /\ response' = Released(response, s, <<>>)
  /\ correctedText' = Released(correctedText, s, <<>>)
  /\ newId' = Released(newId, s, NullId)
  /\ UNCHANGED <<isRecording, error, transcriptions, recordingTime,
                 targetLanguage, refs, nSessions, lang, tracks, intervals,
                 delivered, blob, clock, textAreas, copying, consoleErrors>>

\* FallbackElements with removeChild left out
FallbackElementsLeft(n) == n + 1

\* document.body.removeChild(textArea) after appendChild(textArea)
FallbackElements(n) == (n + 1) - 1

\* writeTextRejected with a failed fallback reported in the error banner
writeTextRejectedSurfaced(s, exec) ==
  /\ pc[s] = "writeText"
  /\ textAreas' = FallbackElements(textAreas)
  /\ IF exec = "throws"
     THEN /\ consoleErrors' = consoleErrors \cup {"Failed to copy to clipboard:",
                                                  "Fallback copy failed"}
          /\ error' = "Fallback copy failed"
          /\ UNCHANGED <<copiedId, copyTimeouts>>
     ELSE /\ consoleErrors' = consoleErrors \cup {"Failed to copy to clipboard:"}
          /\ copyTimeouts < MaxTimeouts
          /\ copiedId' = newId[s]
          /\ copyTimeouts' = copyTimeouts + 1
          /\ error' = error
  /\ isProcessing' = FALSE
  /\ pc' = [pc EXCEPT ![s] = "done"]
  /\ response' = Released(response, s, <<>>)
  /\ correctedText' = Released(correctedText, s, <<>>)
  /\ newId' = Released(newId, s, NullId)
  /\ UNCHANGED <<isRecording, transcriptions, recordingTime,
                 targetLanguage, refs, nSessions, lang, tracks, intervals,
                 delivered, blob, clock, copying>>

\* navigator.clipboard.writeText rejected: the textarea fallback.
\* document.execCommand('copy') returns true ("copied"), returns false
\* ("refused") or throws ("throws"); only the throw is caught, and the
\* returned value is not read.  The content of the system clipboard is read
\* by no code of the page and is not part of the state.
writeTextRejected(s, exec) ==
  /\ pc[s] = "writeText"
  /\ textAreas' = FallbackElements(textAreas)
  /\ IF exec = "throws"
     THEN /\ consoleErrors' = consoleErrors \cup {"Failed to copy to clipboard:",
                                                  "Fallback copy failed"}
          /\ UNCHANGED <<copiedId, copyTimeouts>>
     ELSE /\ consoleErrors' = consoleErrors \cup {"Failed to copy to clipboard:"}
          /\ copyTimeouts < MaxTimeouts
          /\ copiedId' = newId[s]
          /\ copyTimeouts' = copyTimeouts + 1
  /\ isProcessing' = FALSE
  /\ pc' = [pc EXCEPT ![s] = "done"]
  /\ response' = Released(response, s, <<>>)
  /\ correctedText' = Released(correctedText, s, <<>>)
  /\ newId' = Released(newId, s, NullId)
  /\ UNCHANGED <<isRecording, error, transcriptions, recordingTime,
                 targetLanguage, refs, nSessions, lang, tracks, intervals,
                 delivered, blob, clock, copying>>

\* onClick of the copy button of history entry i, up to its await of
\* writeText(t.text); the closure keeps the entry t
copyClick(i) ==
  /\ i \in 1..Len(transcriptions)
  /\ Cardinality(copying) < MaxCopies
  /\ transcriptions[i] \notin copying
  /\ copying' = copying \cup {transcriptions[i]}
  /\ UNCHANGED <<reactState, refs, sessionState, clock, copyTimeouts,
                 textAreas, consoleErrors>>

\* writeText of a copy button resolved
copyWriteTextResolved(t) ==
  /\ t \in copying
  /\ copyTimeouts < MaxTimeouts
  /\ copying' = copying \ {t}
  /\ copiedId' = t.id
  /\ copyTimeouts' = copyTimeouts + 1
  /\ UNCHANGED <<isRecording, isProcessing, error, transcriptions,
                 recordingTime, targetLanguage, refs, sessionState, clock,
                 textAreas, consoleErrors>>

\* writeText of a copy button rejected: the same textarea fallback
copyWriteTextRejected(t, exec) ==
  /\ t \in copying
  /\ copying' = copying \ {t}
  /\ textAreas' = FallbackElements(textAreas)
  /\ IF exec = "throws"
     THEN /\ consoleErrors' = consoleErrors \cup {"Failed to copy text: ",
                                                  "Fallback copy failed"}
          /\ UNCHANGED <<copiedId, copyTimeouts>>
     ELSE /\ consoleErrors' = consoleErrors \cup {"Failed to copy text: "}
          /\ copyTimeouts < MaxTimeouts
          /\ copiedId' = t.id
          /\ copyTimeouts' = copyTimeouts + 1
  /\ UNCHANGED <<isRecording, isProcessing, error, transcriptions,
                 recordingTime, targetLanguage, refs, sessionState, clock>>

\* a setTimeout(() => setCopiedId(null), 2000) callback fires
copiedTimeout ==
  /\ copyTimeouts > 0
  /\ copiedId' = NullId
  /\ copyTimeouts' = copyTimeouts - 1
  /\ UNCHANGED <<isRecording, isProcessing, error, transcriptions,
                 recordingTime, targetLanguage, refs, sessionState, clock,
                 textAreas, copying, consoleErrors>>

\* the setInterval callback of interval i fires: setRecordingTime(prev => prev + 1)
intervalTick(i) ==
  /\ i \in intervals
  /\ recordingTime < MaxTime
  /\ recordingTime' = recordingTime + 1
  /\ UNCHANGED <<isRecording, isProcessing, error, transcriptions, copiedId,
                 targetLanguage, refs, sessionState, platform>>

\* onClick of a language button, disabled while isRecording || isProcessing
setTargetLanguage(l) ==
  /\ ~(isRecording \/ isProcessing)
  /\ targetLanguage' = l
  /\ UNCHANGED <<isRecording, isProcessing, error, transcriptions, copiedId,
                 recordingTime, refs, sessionState, platform>>

Next ==
  \/ handleKeyDown
  \/ ButtonClick
  \/ \E s \in Sessions : getUserMediaResolved(s)
  \/ \E s \in Sessions : getUserMediaRejected(s)
  \/ \E s \in Sessions, size \in {0, 1} : ondataavailable(s, size)
  \/ \E s \in Sessions : RecorderEnds(s)
  \/ \E s \in Sessions : onstop(s)
  \/ \E s \in Sessions : onloadend(s)
  \/ \E s \in Sessions, resp \in Responses, now \in clock..(clock + MaxClock) :
       generateContentResolved(s, resp, now)
  \/ \E s \in Sessions : generateContentRejected(s)
  \/ \E s \in Sessions : writeTextResolved(s)
  \/ \E s \in Sessions, exec \in {"copied", "refused", "throws"} :
       writeTextRejected(s, exec)
  \/ copiedTimeout
  \/ \E i \in Sessions : intervalTick(i)
  \/ \E l \in Languages : setTargetLanguage(l)

Spec == Init /\ [][Next]_vars

\* The event loop runs every queued task: a recorder that has stopped gets its
\* stop event, and a FileReader that has been started gets its loadend event.
FairSpec ==
  Spec /\ \A s \in Sessions : WF_vars(onstop(s)) /\ WF_vars(onloadend(s))

\* The page with its copy buttons.  The copy buttons write copiedId, the
\* pending timeouts and the document only, and read the history; Next leaves
\* them unclicked, and NextCopy follows them for a user who leaves the language
\* as it is and for recordings that end by a stop command within a second.
NextCopy ==
  \/ handleKeyDown
  \/ ButtonClick
  \/ \E s \in Sessions : getUserMediaResolved(s)
  \/ \E s \in Sessions : getUserMediaRejected(s)
  \/ \E s \in Sessions, size \in {0, 1} : ondataavailable(s, size)
  \/ \E s \in Sessions : onstop(s)
  \/ \E s \in Sessions : onloadend(s)
  \/ \E s \in Sessions, resp \in Responses, now \in clock..(clock + MaxClock) :
       generateContentResolved(s, resp, now)
  \/ \E s \in Sessions : generateContentRejected(s)
  \/ \E s \in Sessions : writeTextResolved(s)
  \/ \E s \in Sessions, exec \in {"copied", "refused", "throws"} :
       writeTextRejected(s, exec)
  \/ \E i \in 1..MaxSessions : copyClick(i)
  \/ \E t \in copying : copyWriteTextResolved(t)
  \/ \E t \in copying, exec \in {"copied", "refused", "throws"} :
       copyWriteTextRejected(t, exec)
  \/ copiedTimeout

CopySpec == Init /\ [][NextCopy]_vars

\* A timeout that is pending fires.
FairCopySpec == CopySpec /\ WF_vars(copiedTimeout)

\* ------------------------------------------------------------ properties
\* the phases of a session after its onstop handler has run
AfterStop == {"reading", "generateContent", "writeText", "done", "rejected"}
\* a session that has been started and has not ended
InFlight(s) == pc[s] \notin {"idle", "denied", "done", "rejected"}
Idle == ~isRecording /\ ~isProcessing

\* C1: when the transcription call of a session rejects, the controller
\* returns to Idle (isProcessing false), error becomes the service-failure
\* message and the history is what it was.  The rejection ends the callback, so
\* the step of the rejection is the last step of the session.
C1_RejectionReturnsToIdle ==
  [][\A s \in Sessions :
       (pc[s] = "generateContent" /\ pc'[s] = "rejected")
         => /\ isProcessing' = FALSE
            /\ error' = AIError
            /\ transcriptions' = transcriptions]_vars

\* C2: at most one session is in flight: at most one device stream is held,
\* at most one recorder is recording and at most one ticker is running.
C2_AtMostOneSession ==
  /\ Cardinality(tracks) <= 1
  /\ Cardinality({s \in Sessions : pc[s] = "recording"}) <= 1
  /\ Cardinality(intervals) <= 1

\* C3: at most one transcription call is outstanding.
C3_AtMostOneCall ==
  Cardinality({s \in Sessions : pc[s] = "generateContent"}) <= 1

\* C4: a call that resolves with a text T whose trimmed form is non-empty puts
\* exactly one new entry with text trim(T) at the head of the history, the
\* previous entries following unchanged, and then attempts a clipboard write
\* of that text.
C4_SuccessPrependsEntry ==
  [][/\ \A s \in Sessions :
          (pc[s] = "generateContent" /\ pc'[s] = "writeText")
            => /\ Trim(response'[s]) # <<>>
               /\ Len(transcriptions') = Len(transcriptions) + 1
               /\ Head(transcriptions').text = Trim(response'[s])
               /\ Head(transcriptions').id = newId'[s]
               /\ Tail(transcriptions') = transcriptions
               /\ correctedText'[s] = Trim(response'[s])
     /\ \A s \in Sessions :
          (pc[s] = "generateContent" /\ pc'[s] # "generateContent")
            => \A resp \in Texts, now \in clock..(clock + MaxClock) :
                 (generateContentResolved(s, resp, now) /\ Trim(resp) # <<>>)
                   => (pc'[s] = "writeText" /\ response'[s] = resp)]_vars

\* a clipboard write is outstanding for a text that differs from the response
\* it was trimmed from, and its entry heads a history of two
C4_Witness ==
  \E s \in Sessions :
    /\ pc[s] = "writeText"
    /\ response[s] # correctedText[s]
    /\ Len(transcriptions) = 2
    /\ transcriptions[1].text = correctedText[s]

\* C5: a call that resolves with no usable text (absent, empty or
\* whitespace-only) ends the processing, sets error to the empty-transcription
\* message, leaves the history unchanged, attempts no clipboard write and does
\* not set copiedId.
C5_EmptyResult ==
  [][\A s \in Sessions :
       (pc[s] = "generateContent" /\ pc'[s] # "generateContent")
         => \A resp \in Responses, now \in clock..(clock + MaxClock) :
              (generateContentResolved(s, resp, now)
                 /\ (resp = Absent \/ Trim(resp) = <<>>))
                => /\ isProcessing' = FALSE
                   /\ error' = EmptyError
                   /\ transcriptions' = transcriptions
                   /\ pc'[s] = "done"
                   /\ copiedId' = copiedId
                   /\ UNCHANGED <<copyTimeouts, textAreas, consoleErrors>>]_vars

\* an empty result has been reported while the history holds an earlier entry
C5_Witness ==
  \E s \in Sessions :
    /\ pc[s] = "done"
    /\ error = EmptyError
    /\ ~isProcessing
    /\ copiedId = NullId
    /\ transcriptions # <<>>

\* C6: a start command whose permission request fails never records: the step
\* of the failure sets error to the microphone message and leaves isRecording,
\* the recorder, the ticker and the held streams as they were, and the session
\* stays ended without a stream, a recorder or a ticker.
C6_DeniedNeverRecords ==
  [][\A s \in Sessions :
       /\ (pc[s] = "getUserMedia" /\ pc'[s] = "denied")
            => /\ error' = MicError
               /\ isRecording' = isRecording
               /\ UNCHANGED <<tracks, intervals, mediaRecorderRef, timerRef>>
       /\ pc[s] = "denied" => pc'[s] = "denied"
       /\ pc'[s] = "denied"
            => /\ s \notin tracks'
               /\ s \notin intervals'
               /\ mediaRecorderRef' # s
               /\ timerRef' # s]_vars

\* a permission request has failed and the controller is idle with the
\* microphone message and no stream
C6_Witness ==
  \E s \in Sessions :
    /\ pc[s] = "denied"
    /\ error = MicError
    /\ Idle
    /\ tracks = {}

\* C7: the stream of a session is released by the time its onstop handler has
\* run, whatever the call then does; a stopped recorder's stream is eventually
\* released; and an idle controller with no session in flight holds no stream.
C7_DeviceReleased ==
  /\ [](\A s \in Sessions : pc[s] \in AfterStop => s \notin tracks)
  /\ []((Idle /\ \A s \in Sessions : ~InFlight(s)) => tracks = {})
  /\ \A s \in Sessions :
       (pc[s] \in {"stopped", "ended"}) ~> (s \notin tracks)

\* a transcription call has been rejected and no stream is held
C7_Witness ==
  \E s \in Sessions : pc[s] = "rejected" /\ tracks = {}

\* C8: a command (key or button) given while recording or processing starts
\* no session; a command given while not recording stops no recorder,
\* assembles no payload and issues no call; a command given while processing
\* (and not recording) changes nothing.
C8_CommandsIgnored ==
  [][/\ (isRecording \/ isProcessing)
          => (nSessions' = nSessions
              /\ \A s \in Sessions : pc'[s] = "getUserMedia"
                                       => pc[s] = "getUserMedia")
     /\ ~isRecording
          => \A s \in Sessions : ~(pc[s] = "recording" /\ pc'[s] = "stopped")
     /\ ((handleKeyDown \/ ButtonClick) /\ ~isRecording)
          => /\ blob' = blob
             /\ \A s \in Sessions : pc'[s] = "generateContent"
                                      => pc[s] = "generateContent"
     /\ ((handleKeyDown \/ ButtonClick) /\ ~isRecording /\ isProcessing)
          => UNCHANGED vars]_vars

\* the controller is processing, a recorder exists and a further start would
\* be possible
C8_Witness ==
  /\ isProcessing
  /\ ~isRecording
  /\ mediaRecorderRef # 0
  /\ nSessions < MaxSessions

\* C9: from the start command until the call resolves, the language of a
\* session is the selected language.
C9_LanguageFixedDuringSession ==
  \A s \in Sessions :
    pc[s] \in {"getUserMedia", "recording", "stopped", "ended", "reading",
               "generateContent"}
      => lang[s] = targetLanguage

\* C10: recordingTime changes only by a reset to 0 on entering Recording or by
\* an increment of 1 while recording, and no ticker runs when not recording.
C10_TimerOnlyWhileRecording ==
  [][/\ recordingTime' # recordingTime
          => \/ (isRecording /\ recordingTime' = recordingTime + 1)
             \/ (isRecording' /\ recordingTime' = 0)
     /\ (\E s \in Sessions : pc[s] = "getUserMedia" /\ pc'[s] = "recording")
          => recordingTime' = 0
     /\ ~isRecording' => intervals' = {}]_vars

\* C11: whenever the controller enters Recording (a permission request is
\* granted and the recorder starts), error is null.
C11_ErrorClearedOnRecording ==
  [][(\E s \in Sessions : pc[s] = "getUserMedia" /\ pc'[s] = "recording")
       => error' = Null]_vars

\* the chunks of recorder s in a chunk list, in the list's order
ChunksOf(s, chunks) == SelectSeq(chunks, LAMBDA c : c[1] = s)

\* C12: the payload assembled at the stop event of a session is exactly the
\* non-empty chunks delivered to that session's recorder, in delivery order:
\* it holds no chunk of another session, and no step before the stop event
\* drops a chunk the recorder has delivered.
C12_PayloadIsOwnChunks ==
  [][\A s \in Sessions :
       pc[s] \in {"stopped", "ended"}
         => /\ pc'[s] = "reading"
                 => /\ blob'[s] = ChunksOf(s, blob'[s])
                    /\ blob'[s] = ChunksOf(s, audioChunksRef)
            /\ pc'[s] = pc[s]
                 => \E rest \in {<<>>, <<<<s, delivered'[s]>>>>} :
                      ChunksOf(s, audioChunksRef')
                        = ChunksOf(s, audioChunksRef) \o rest]_vars

\* the call of session s has been issued or has ended
CallIssued == {"generateContent", "writeText", "done", "rejected"}

\* C13: a recorder that has been stopped leads to the transcription call of
\* its session, for any number of chunks, through the stop event, which sets
\* isProcessing; the call of a session is issued once, from the loadend event
\* that follows the stop event, and after a rejection or a result the session
\* issues no further call.
C13_StopLeadsToOneCall ==
  /\ \A s \in Sessions :
       (pc[s] = "stopped") ~> (pc[s] = "generateContent")
  /\ [][\A s \in Sessions :
          /\ pc[s] = "stopped" => pc'[s] \in {"stopped", "reading"}
          /\ (pc[s] = "stopped" /\ pc'[s] = "reading") => isProcessing'
          /\ pc[s] = "reading" => pc'[s] \in {"reading", "generateContent"}
          /\ pc[s] \in CallIssued
               => /\ pc'[s] \in CallIssued
                  /\ pc'[s] = "generateContent" => pc[s] = "generateContent"]_vars

\* the call of a session whose recorder was stopped before it delivered any
\* chunk has been issued with an empty payload
C13_Witness ==
  \E s \in Sessions :
    /\ pc[s] = "generateContent"
    /\ blob[s] = <<>>
    /\ ~isRecording
    /\ isProcessing

\* C14: every step either leaves transcriptions unchanged or puts one new
\* entry before the entries it had, which stay as they were and in their
\* order; the list changes only in the step in which a call resolves with a
\* text that is not empty after trimming, and the new entry holds that text.
C14_HistoryAppendOnly ==
  [][transcriptions' # transcriptions
       => /\ Len(transcriptions') = Len(transcriptions) + 1
          /\ SubSeq(transcriptions', 2, Len(transcriptions')) = transcriptions
          /\ \E s \in Sessions :
               /\ pc[s] = "generateContent"
               /\ pc'[s] = "writeText"
               /\ IsUsable(correctedText'[s])
               /\ Head(transcriptions')
                    = [id |-> newId'[s], text |-> correctedText'[s]]]_vars

\* two results have been added to the history, the later one first
C14_Witness ==
  /\ Len(transcriptions) = 2
  /\ transcriptions[1].id >= transcriptions[2].id
  /\ transcriptions[1].text # transcriptions[2].text

\* C15: the step that ends the clipboard write of a result, whether the write
\* resolves or the fallback copies, is refused or throws, ends the session and
\* the processing, leaves isRecording, error and the history as they are, and
\* the entry of the result is in the history; a controller that was not
\* recording is then idle.
C15_CopyFailureIsSilent ==
  [][\A s \in Sessions :
       pc[s] = "writeText"
         => /\ \E i \in 1..Len(transcriptions) :
                 transcriptions[i] = [id |-> newId[s], text |-> correctedText[s]]
            /\ pc'[s] # "writeText"
                 => /\ pc'[s] = "done"
                    /\ isProcessing' = FALSE
                    /\ isRecording' = isRecording
                    /\ ~isRecording => Idle'
                    /\ error' = error
                    /\ transcriptions' = transcriptions]_vars

\* both the clipboard write and the fallback of a result have failed, and the
\* controller is idle with the entry in the history and no error
C15_Witness ==
  /\ "Fallback copy failed" \in consoleErrors
  /\ Idle
  /\ error = Null
  /\ copiedId = NullId
  /\ Len(transcriptions) = 1
  /\ \A s \in Sessions : pc[s] \in {"idle", "done"}

\* C16: no step leaves a fallback textarea in the document, whether the
\* legacy copy command copies, is refused or throws; and the step that ends a
\* clipboard write (of a result or of a copy button) either sets copiedId to
\* the id of the entry and starts its timeout, or has logged the failure of
\* the fallback and leaves copiedId as it is.
C16_FallbackLeavesNoElement ==
  [][/\ textAreas' = 0
     /\ \A s \in Sessions :
          (pc[s] = "writeText" /\ pc'[s] # "writeText")
            => \/ /\ copiedId' = newId[s]
                  /\ copyTimeouts' = copyTimeouts + 1
               \/ /\ "Fallback copy failed" \in consoleErrors'
                  /\ UNCHANGED <<copiedId, copyTimeouts>>
     /\ \A t \in copying :
          t \notin copying'
            => \/ /\ copiedId' = t.id
                  /\ copyTimeouts' = copyTimeouts + 1
               \/ /\ "Fallback copy failed" \in consoleErrors'
                  /\ UNCHANGED <<copiedId, copyTimeouts>>]_vars

\* the fallback has run after the write of a result and after the write of a
\* copy button and has not thrown; both have set copiedId to the entry, and the
\* document holds no textarea
C16_Witness ==
  /\ consoleErrors = {"Failed to copy to clipboard:", "Failed to copy text: "}
  /\ nSessions = 1
  /\ Len(transcriptions) = 1
  /\ copiedId = transcriptions[1].id
  /\ copyTimeouts = 2
  /\ copying = {}
  /\ textAreas = 0

\* C17: a marker that is set is cleared only by the timeout of the copy that
\* set it.  The timeouts have one delay and fire in the order of their copies,
\* and the marker is of the latest copy, so the timeout that clears a set
\* marker is the only one pending.
C17_MarkerClearedByOwnTimeout ==
  [][(copyTimeouts' < copyTimeouts /\ copiedId # NullId)
       => copyTimeouts = 1]_vars

\* C18: isRecording and isProcessing are never both true, and when both are
\* false no recorder is recording, no stop event is pending and no
\* transcription call is outstanding.
C18_ExactlyOneState ==
  /\ ~(isRecording /\ isProcessing)
  /\ Idle => \A s \in Sessions :
               pc[s] \notin {"recording", "stopped", "ended", "generateContent"}

\* C19: the stop event of a recorder that has ended without a stop command
\* leaves Recording as a stop command does: after it isRecording is false, the
\* interval of the session is cleared, its stream is released and the
\* controller is processing.
C19_SelfCompletionStops ==
  [][\A s \in Sessions :
       (pc[s] = "ended" /\ pc'[s] = "reading")
         => /\ isRecording' = FALSE
            /\ s \notin intervals'
            /\ s \notin tracks'
            /\ isProcessing']_vars

\* C20: the entries of the history have pairwise distinct ids.
C20_DistinctIds ==
  \A i, j \in 1..Len(transcriptions) :
    i # j => transcriptions[i].id # transcriptions[j].id

====
